---- MODULE Spec2Model ----
(***************************************************************************)
(* Water-quality sample service: the WaterSample record model              *)
(* (schemas.py) and the four operations of main.py (create_sample,         *)
(* list_samples, get_summaries, cluster_trigger) over the "watersample"    *)
(* collection of the document store.                                       *)
(*                                                                         *)
(* Python values are tagged records [t |-> type, v |-> payload], so that   *)
(* None, numbers, strings, datetimes, ObjectIds, dicts and lists are       *)
(* distinct values and isinstance() is a test of the tag.  A dict is a     *)
(* function from its keys to values; a missing key is a missing element    *)
(* of the function's domain.                                               *)
(***************************************************************************)
EXTENDS Integers, Sequences, FiniteSets, TLC

VARIABLES store, nextId, response, created

vars == <<store, nextId, response, created>>

(* ---------------------------- bounds ---------------------------------- *)

\* Largest number of documents the collection holds in the model.
MaxDocs == 3

(* ------------------------ Python values -------------------------------- *)

None == [t |-> "null", v |-> 0]
Num(n) == [t |-> "num", v |-> n]
Str(s) == [t |-> "str", v |-> s]
Datetime(n) == [t |-> "datetime", v |-> n]
ObjectId(n) == [t |-> "oid", v |-> n]
Dict(f) == [t |-> "dict", v |-> f]
List(s) == [t |-> "list", v |-> s]

\* The empty dict {} .
EmptyDict == [k \in {} |-> None]

\* d with key k removed (dict.pop / del).
Without(d, k) == [x \in (DOMAIN d) \ {k} |-> d[x]]

\* d[k] = val on a dict: the key is added or overwritten.
SetKey(d, k, val) == [x \in (DOMAIN d) \cup {k} |-> IF x = k THEN val ELSE d[x]]

\* Python truthiness of the values a handler tests with "if x:".
Truthy(x) ==
    CASE x.t = "null" -> FALSE
      [] x.t = "str" -> x.v # ""
      [] x.t = "num" -> x.v # 0
      [] x.t = "dict" -> DOMAIN x.v # {}
      [] x.t = "list" -> x.v # <<>>
      [] OTHER -> TRUE

\* str(ObjectId): the identifier's text form; distinct ids give distinct text.
str(x) == "oid" \o ToString(x.v)

\* datetime.isoformat(): the timestamp's ISO-8601 text form.
isoformat(x) == "2024-01-0" \o ToString(x.v) \o "T00:00:00"

max(a, b) == IF a >= b THEN a ELSE b

\* a % b of Python for b > 0 (the result has the sign of b).
PyMod(a, b) == a % b

(* ---------------------- schemas.py: record model ----------------------- *)

IsFloat(x) == x.t = "num"
IsStr(x) == x.t = "str"
IsDatetime(x) == x.t = "datetime"

\* Optional[str] / Optional[float] / Optional[int] members of a dict: the key
\* may be left out or hold None.
OptionalStr(d, f) == f \in DOMAIN d => (d[f] = None \/ IsStr(d[f]))

\* Optional[float] = Field(None, ge=0)
OptionalNonNeg(d, f) ==
    f \in DOMAIN d => (d[f] = None \/ (IsFloat(d[f]) /\ d[f].v >= 0))

\* class Location: lat and lon are required and bounded.
Location(x) ==
    /\ x.t = "dict"
    /\ "lat" \in DOMAIN x.v /\ IsFloat(x.v["lat"])
    /\ x.v["lat"].v >= -90 /\ x.v["lat"].v <= 90
    /\ "lon" \in DOMAIN x.v /\ IsFloat(x.v["lon"])
    /\ x.v["lon"].v >= -180 /\ x.v["lon"].v <= 180

\* class SampleFile: filename is required, the rest optional.
SampleFile(x) ==
    /\ x.t = "dict"
    /\ "filename" \in DOMAIN x.v /\ IsStr(x.v["filename"])
    /\ OptionalStr(x.v, "url")
    /\ OptionalStr(x.v, "content_type")
    /\ "size" \in DOMAIN x.v => (x.v["size"] = None \/ IsFloat(x.v["size"]))

\* ph: Optional[float] = Field(None, ge=0, le=14), with the upper bound lost.
PhUnbounded(c) ==
    "ph" \in DOMAIN c => (c["ph"] = None \/ (IsFloat(c["ph"]) /\ c["ph"].v >= 0))

\* ph: Optional[float] = Field(None, ge=0, le=14)
PhOK(c) ==
    "ph" \in DOMAIN c =>
        (c["ph"] = None \/ (IsFloat(c["ph"]) /\ c["ph"].v >= 0 /\ c["ph"].v <= 14))

\* metals_mg_l: Optional[Dict[str, float]]; the keys are not restricted.
MetalsOK(c) ==
    "metals_mg_l" \in DOMAIN c =>
        \/ c["metals_mg_l"] = None
        \/ /\ c["metals_mg_l"].t = "dict"
           /\ \A k \in DOMAIN c["metals_mg_l"].v : IsFloat(c["metals_mg_l"].v[k])

\* files: Optional[List[SampleFile]]
FilesOK(c) ==
    "files" \in DOMAIN c =>
        \/ c["files"] = None
        \/ /\ c["files"].t = "list"
           /\ \A i \in DOMAIN c["files"].v : SampleFile(c["files"].v[i])

RequiredFields == {"scenario", "collected_at", "location"}

OptionalFields ==
    {"site_name", "ph", "dissolved_oxygen_mg_l", "turbidity_ntu",
     "metals_mg_l", "notes", "files"}

ModelFields == RequiredFields \cup OptionalFields

\* Validation of a candidate (the request body) against class WaterSample.
WaterSampleValid(c) ==
    /\ "scenario" \in DOMAIN c /\ IsStr(c["scenario"])
    /\ OptionalStr(c, "site_name")
    /\ "collected_at" \in DOMAIN c /\ IsDatetime(c["collected_at"])
    /\ "location" \in DOMAIN c /\ Location(c["location"])
    /\ PhOK(c)
    /\ OptionalNonNeg(c, "dissolved_oxygen_mg_l")
    /\ OptionalNonNeg(c, "turbidity_ntu")
    /\ MetalsOK(c)
    /\ OptionalStr(c, "notes")
    /\ FilesOK(c)

\* The model object with every declared field marked as supplied.
WaterSampleAllSet(c) ==
    [data |-> [f \in ModelFields |-> IF f \in DOMAIN c THEN c[f] ELSE None],
     fields_set |-> ModelFields]

\* The validated model object: every declared field has a value (None is the
\* default of each optional field), keys that are no field of the model are
\* dropped, and fields_set records the fields the caller supplied.
WaterSample(c) ==
    [data |-> [f \in ModelFields |-> IF f \in DOMAIN c THEN c[f] ELSE None],
     fields_set |-> (DOMAIN c) \cap ModelFields]

(* ------------------- database adapter (document store) ----------------- *)

\* The document a validated sample is persisted as: the fields the caller
\* supplied, with their values.
Document(sample) == [f \in sample.fields_set |-> sample.data[f]]

\* create_document(collection, data): the collection with the new document
\* appended under a fresh store-assigned _id.
create_document(s, n, sample) ==
    Append(s, SetKey(Document(sample), "_id", ObjectId(n)))

\* An equality filter on top-level fields.
Matches(doc, flt) == \A k \in DOMAIN flt : k \in DOMAIN doc /\ doc[k] = flt[k]

\* The first n elements of a sequence.
Take(s, n) == SubSeq(s, 1, IF n < Len(s) THEN n ELSE Len(s))

\* get_documents(collection, filter, limit): the matching documents in
\* insertion order, at most limit of them when a limit is given.
get_documents(s, flt, limit) ==
    LET Hit(doc) == Matches(doc, flt)
        found == SelectSeq(s, Hit)
    IN  IF limit = None THEN found ELSE Take(found, limit.v)

(* --------------------------- main.py ----------------------------------- *)

\* limit: Optional[int] = 200, the default of list_samples.
DefaultLimit == 200

\* k: int = 3, the default of ClusterRequest.
DefaultK == 3

\* raise HTTPException(status_code=..., detail=...)
HTTPException(status, detail) == [status |-> status, body |-> [detail |-> detail]]

\* The filter both list_samples and cluster_trigger build: flt = {} and,
\* "if scenario:", flt["scenario"] = scenario.
scenario_filter(scenario) ==
    IF Truthy(scenario) THEN [scenario |-> scenario] ELSE EmptyDict

\* clean's inner loop leaving the members of a nested dict as they are.
clean_nested_skip(v) == v

\* The inner loop of clean on a nested dict: its datetime members become
\* ISO strings.
clean_nested(v) ==
    Dict([kk \in DOMAIN v.v |->
            IF IsDatetime(v.v[kk]) THEN Str(isoformat(v.v[kk])) ELSE v.v[kk]])

\* clean with the identifier moved to id as the store's own type, not str().
clean_no_str(doc) ==
    LET d1 == IF "_id" \in DOMAIN doc /\ Truthy(doc["_id"])
              THEN SetKey(Without(doc, "_id"), "id", doc["_id"])
              ELSE SetKey(doc, "id", None)
    IN  [k \in DOMAIN d1 |->
            IF IsDatetime(d1[k]) THEN Str(isoformat(d1[k]))
            ELSE IF d1[k].t = "dict" THEN clean_nested(d1[k])
            ELSE d1[k]]

\* list_samples.clean(doc): _id becomes the string field id, datetimes at the
\* top level and in nested dicts become ISO strings.
clean(doc) ==
    LET d1 == IF "_id" \in DOMAIN doc /\ Truthy(doc["_id"])
              THEN SetKey(Without(doc, "_id"), "id", Str(str(doc["_id"])))
              ELSE SetKey(doc, "id", None)
    IN  [k \in DOMAIN d1 |->
            IF IsDatetime(d1[k]) THEN Str(isoformat(d1[k]))
            ELSE IF d1[k].t = "dict" THEN clean_nested(d1[k])
            ELSE d1[k]]

\* list_samples answering with what the store delivered even when the store
\* call raised.
list_samples_swallow(r) ==
    LET cleaned == [i \in DOMAIN r.docs |-> clean(r.docs[i])]
    IN  [status |-> 200, body |-> [items |-> cleaned, count |-> Len(cleaned)]]

\* The return of list_samples for the outcome r of get_documents: the
\* cleaned documents, or the except branch when the store call raised.
list_samples(r) ==
    LET cleaned == [i \in DOMAIN r.docs |-> clean(r.docs[i])]
    IN  IF r.ok
        THEN [status |-> 200, body |-> [items |-> cleaned, count |-> Len(cleaned)]]
        ELSE HTTPException(500, "StoreError")

\* labels counting the retrieved records from 1.
labels_one_based(ids, k) ==
    LET Last(id) == CHOOSE i \in DOMAIN ids :
                        ids[i] = id /\ \A j \in DOMAIN ids : ids[j] = id => j <= i
    IN  [id \in {ids[i] : i \in DOMAIN ids} |-> PyMod(Last(id), max(1, k))]

\* The labels dict of cluster_trigger: ids[i] -> i % max(1, k), a later
\* entry of the comprehension replacing an earlier one with the same key.
labels(ids, k) ==
    LET Last(id) == CHOOSE i \in DOMAIN ids :
                        ids[i] = id /\ \A j \in DOMAIN ids : ids[j] = id => j <= i
    IN  [id \in {ids[i] : i \in DOMAIN ids} |-> PyMod(Last(id) - 1, max(1, k))]

\* The return of cluster_trigger for the outcome r of get_documents: the
\* ClusterResult, or the except branch when the store call raised or a
\* document has no "_id" (d["_id"] raises KeyError).
cluster_trigger(req, r) ==
    LET ids == [i \in DOMAIN r.docs |-> str(r.docs[i]["_id"])]
    IN  IF r.ok /\ \A i \in DOMAIN r.docs : "_id" \in DOMAIN r.docs[i]
        THEN [status |-> 200,
              body |-> [scenario |-> req.scenario, k |-> req.k,
                        labels |-> labels(ids, req.k)]]
        ELSE HTTPException(500, "StoreError")

(* ----------------------- get_summaries ---------------------------------- *)

RECURSIVE GCD(_, _)
GCD(a, b) == IF b = 0 THEN a ELSE GCD(b, a % b)

\* The quotient total / n, n > 0, as an exact fraction in lowest terms.
Ratio(total, n) ==
    LET g == GCD(IF total < 0 THEN -total ELSE total, n)
    IN  [t |-> "ratio", v |-> <<total \div g, n \div g>>]

\* "$scenario": the value of the field, null when the document has none.
group_id(doc) == IF "scenario" \in DOMAIN doc THEN doc["scenario"] ELSE None

\* One more document into an {"$avg": "$field"} accumulator <<total, n>>:
\* a value that is not a number (null, or the field missing) is ignored.
avg_add(acc, doc, f) ==
    IF f \in DOMAIN doc /\ IsFloat(doc[f])
    THEN <<acc[1] + doc[f].v, acc[2] + 1>>
    ELSE acc

\* The accumulators of a group before its first document.
group_init == [count |-> 0, ph |-> <<0, 0>>, do |-> <<0, 0>>, turbidity |-> <<0, 0>>]

\* group_add with avg_do averaging "$ph" in place of "$dissolved_oxygen_mg_l".
group_add_avg_do_of_ph(acc, doc) ==
    [count |-> acc.count + 1,
     ph |-> avg_add(acc.ph, doc, "ph"),
     do |-> avg_add(acc.do, doc, "ph"),
     turbidity |-> avg_add(acc.turbidity, doc, "turbidity_ntu")]

\* One more document into the accumulators of its group: "count": {"$sum": 1}
\* and the three {"$avg": ...} of the pipeline.
group_add(acc, doc) ==
    [count |-> acc.count + 1,
     ph |-> avg_add(acc.ph, doc, "ph"),
     do |-> avg_add(acc.do, doc, "dissolved_oxygen_mg_l"),
     turbidity |-> avg_add(acc.turbidity, doc, "turbidity_ntu")]

\* The $group stage over the collection: the accumulators of each group id.
RECURSIVE group_stage(_)
group_stage(s) ==
    IF s = <<>> THEN EmptyDict
    ELSE LET g == group_stage(SubSeq(s, 1, Len(s) - 1))
             doc == s[Len(s)]
             id == group_id(doc)
         IN  SetKey(g, id, group_add(IF id \in DOMAIN g THEN g[id] ELSE group_init, doc))

\* The value of an $avg accumulator: null when it saw no number.
avg_value(acc) == IF acc[2] = 0 THEN None ELSE Ratio(acc[1], acc[2])

\* The $project stage: one row per group (the order of the rows is the
\* store's and is not modelled).
pipeline(s) ==
    LET g == group_stage(s)
    IN  {[scenario |-> id,
          count |-> g[id].count,
          avg_ph |-> avg_value(g[id].ph),
          avg_do |-> avg_value(g[id].do),
          avg_turbidity |-> avg_value(g[id].turbidity)] : id \in DOMAIN g}

\* The return of get_summaries: ScenarioSummary(**r) of each row, which
\* raises (and so ends in the except branch) when scenario is no string.
get_summaries(r) ==
    IF r.ok /\ \A row \in r.rows : IsStr(row.scenario)
    THEN [status |-> 200, body |-> r.rows]
    ELSE HTTPException(500, "StoreError")

(* ------------------------- requests ------------------------------------ *)

\* A valid candidate with the required fields only.
Base ==
    [scenario |-> Str("dry"), collected_at |-> Datetime(1),
     location |-> Dict([lat |-> Num(45), lon |-> Num(10)])]

\* Base with the given fields added or replaced.
With(c, more) == [f \in DOMAIN c \cup DOMAIN more |-> IF f \in DOMAIN more THEN more[f] ELSE c[f]]

\* Request bodies of POST /samples that the record model accepts.  The key
\* "color" is no field of the model.
GoodCandidates ==
    { With(Base, [ph |-> Num(6), notes |-> Str("n")]),
      With(Base, [ph |-> Num(8), turbidity_ntu |-> Num(3),
                  metals_mg_l |-> Dict([pb |-> Num(2)])]),
      With(Base, [ph |-> None, site_name |-> Str("s1"), color |-> Str("red")]),
      With(Base, [scenario |-> Str("wet"), ph |-> Num(14), collected_at |-> Datetime(2),
                  dissolved_oxygen_mg_l |-> Num(5),
                  location |-> Dict([lat |-> Num(-90), lon |-> Num(180)]),
                  files |-> List(<<Dict([filename |-> Str("a.csv"), size |-> Num(10)])>>)]),
      With(Base, [scenario |-> Str("")]) }

\* Request bodies that violate one constraint of the record model each.
BadCandidates ==
    { With(Base, [ph |-> Num(-1)]),
      With(Base, [ph |-> Num(15)]),
      With(Base, [dissolved_oxygen_mg_l |-> Num(-1)]),
      With(Base, [turbidity_ntu |-> Num(-1)]),
      With(Base, [location |-> Dict([lat |-> Num(91), lon |-> Num(10)])]),
      With(Base, [location |-> Dict([lat |-> Num(45), lon |-> Num(-181)])]),
      With(Base, [location |-> Dict([lat |-> Num(45)])]),
      With(Base, [scenario |-> None]),
      Without(Base, "scenario"),
      Without(Base, "collected_at"),
      Without(Base, "location") }

Candidates == GoodCandidates \cup BadCandidates

\* The scenario parameter: not supplied (None), or a string.
Scenarios == {None, Str(""), Str("dry")}

\* The limit parameter: not supplied to the store (None), or a positive count.
Limits == {None, Num(1), Num(DefaultLimit)}

\* The k of a ClusterRequest.
Ks == {-1, 0, 2, DefaultK}

\* The outcomes of a get_documents call whose result is found: the documents,
\* or a failure of the store before it delivered any or after it delivered
\* all but the last.
Outcomes(found) ==
    {[ok |-> TRUE, docs |-> found]}
        \cup {[ok |-> FALSE, docs |-> SubSeq(found, 1, n)] :
                n \in {0, IF found = <<>> THEN 0 ELSE Len(found) - 1}}

(* --------------------------- state machine ----------------------------- *)

\* Whether the request before this one was the same successful GET /samples,
\* and the items it returned.
Before(op, req, ret) ==
    IF /\ op = "list" /\ response.op = "list"
       /\ response.req = req
       /\ ret.status = 200 /\ response.status = 200
    THEN [seen |-> TRUE, items |-> response.body.items]
    ELSE [seen |-> FALSE, items |-> <<>>]

\* What the last request was and what it returned; req, storeOk, docs and
\* before record the request, whether the store call succeeded, what it
\* delivered and the reply to the same request made just before.
Reply(op, req, r, ret) ==
    [op |-> op, req |-> req, storeOk |-> r.ok,
     docs |-> IF r.ok THEN r.docs ELSE <<>>,
     before |-> Before(op, req, ret),
     status |-> ret.status, body |-> ret.body]

NoReply ==
    [op |-> "none", req |-> None, storeOk |-> TRUE, docs |-> <<>>,
     before |-> [seen |-> FALSE, items |-> <<>>],
     status |-> 0, body |-> EmptyDict]

Init ==
    /\ store = <<>>
    /\ nextId = 1
    /\ created = <<>>
    /\ response = NoReply

\* POST /samples.  The body is validated against WaterSample before the
\* handler runs; the handler inserts and returns the id, or turns an
\* exception of the store into HTTPException(500).
CreateSample ==
    \E c \in Candidates, storeOk \in BOOLEAN :
        IF ~WaterSampleValid(c)
        THEN /\ response' = Reply("create", c, [ok |-> TRUE, docs |-> <<>>],
                                  HTTPException(422, "ValidationError"))
             /\ UNCHANGED <<store, nextId, created>>
        ELSE IF ~storeOk
        THEN /\ response' = Reply("create", c, [ok |-> FALSE, docs |-> <<>>],
                                  HTTPException(500, "StoreError"))
             /\ UNCHANGED <<store, nextId, created>>
        ELSE /\ Len(store) < MaxDocs
             /\ store' = create_document(store, nextId, WaterSample(c))
             /\ nextId' = nextId + 1
             /\ response' = Reply("create", c, [ok |-> TRUE, docs |-> <<>>],
                                  [status |-> 200,
                                   body |-> [id |-> str(ObjectId(nextId)),
                                             status |-> "created"]])
             /\ created' = Append(created, [id |-> str(ObjectId(nextId)), input |-> c])

\* GET /samples with clean() working on the store's own documents instead
\* of on copies of them.
ListSamplesAliased ==
    \E scenario \in Scenarios, limit \in Limits :
        \E r \in Outcomes(get_documents(store, scenario_filter(scenario), limit)) :
            /\ response' = Reply("list", [scenario |-> scenario, limit |-> limit],
                                 r, list_samples(r))
            /\ store' = [i \in DOMAIN store |->
                            IF r.ok /\ \E j \in DOMAIN r.docs : r.docs[j] = store[i]
                            THEN clean(store[i]) ELSE store[i]]
            /\ UNCHANGED <<nextId, created>>

\* GET /samples
ListSamples ==
    \E scenario \in Scenarios, limit \in Limits :
        \E r \in Outcomes(get_documents(store, scenario_filter(scenario), limit)) :
            /\ response' = Reply("list", [scenario |-> scenario, limit |-> limit],
                                 r, list_samples(r))
            /\ UNCHANGED <<store, nextId, created>>

\* GET /summaries
GetSummaries ==
    \E storeOk \in BOOLEAN :
        /\ response' = Reply("summaries", None, [ok |-> storeOk, docs |-> <<>>],
                             get_summaries([ok |-> storeOk, rows |-> pipeline(store)]))
        /\ UNCHANGED <<store, nextId, created>>

\* POST /cluster
ClusterTrigger ==
    \E scenario \in Scenarios, k \in Ks :
        \E r \in Outcomes(get_documents(store, scenario_filter(scenario), None)) :
            /\ response' = Reply("cluster", [scenario |-> scenario, k |-> k],
                                 r, cluster_trigger([scenario |-> scenario, k |-> k], r))
            /\ UNCHANGED <<store, nextId, created>>

Next ==
    \/ CreateSample
    \/ ListSamples
    \/ GetSummaries
    \/ ClusterTrigger

Spec == Init /\ [][Next]_vars

(* ---------------- list_samples over arbitrary documents ----------------- *)

\* Documents as the collection may hold them: those create_sample writes,
\* and documents with timestamps at the top level, in a nested dict, in a
\* list and two levels down, and with a field named id.
RawDocuments ==
    {Document(WaterSample(c)) : c \in GoodCandidates}
        \cup
    { [scenario |-> Str("dry"), created_at |-> Datetime(2), updated_at |-> Datetime(3)],
      [scenario |-> Str("dry"),
       meta |-> Dict([at |-> Datetime(3), by |-> Str("x")])],
      [scenario |-> Str(""), stamps |-> List(<<Datetime(1), Datetime(2)>>)],
      [scenario |-> Str("dry"),
       meta |-> Dict([inner |-> Dict([at |-> Datetime(1)])])],
      [scenario |-> Str("dry"), id |-> Str("mine")] }

\* The collection of the first n of the given documents, each under its _id.
Stored(docs) == [i \in DOMAIN docs |-> SetKey(docs[i], "_id", ObjectId(i))]

InitClean ==
    /\ \E a \in RawDocuments, b \in RawDocuments, n \in 1..2 :
           store = Stored(SubSeq(<<a, b>>, 1, n))
    /\ nextId = Len(store) + 1
    /\ created = <<>>
    /\ response = NoReply

NextClean == ListSamples

SpecClean == InitClean /\ [][NextClean]_vars

(* ------------------------------ claims --------------------------------- *)

\* A candidate that leaves out a required field or breaks a numeric bound of
\* the data model.
OutOfModel(c) ==
    \/ "scenario" \notin DOMAIN c
    \/ "collected_at" \notin DOMAIN c
    \/ "location" \notin DOMAIN c
    \/ "ph" \in DOMAIN c /\ c["ph"].t = "num" /\ (c["ph"].v < 0 \/ c["ph"].v > 14)
    \/ "dissolved_oxygen_mg_l" \in DOMAIN c /\ c["dissolved_oxygen_mg_l"].t = "num"
          /\ c["dissolved_oxygen_mg_l"].v < 0
    \/ "turbidity_ntu" \in DOMAIN c /\ c["turbidity_ntu"].t = "num"
          /\ c["turbidity_ntu"].v < 0
    \/ "location" \in DOMAIN c /\ c["location"].t = "dict"
          /\ "lat" \in DOMAIN c["location"].v
          /\ (c["location"].v["lat"].v < -90 \/ c["location"].v["lat"].v > 90)
    \/ "location" \in DOMAIN c /\ c["location"].t = "dict"
          /\ "lon" \in DOMAIN c["location"].v
          /\ (c["location"].v["lon"].v < -180 \/ c["location"].v["lon"].v > 180)

\* C1: a create-sample request whose record has ph outside [0,14], breaks
\* another numeric bound or lacks scenario, collected_at or location is
\* answered with a ValidationError, and the step leaves the collection as
\* it was.
C1_InvalidRejected ==
    [][(response'.op = "create" /\ OutOfModel(response'.req))
          => /\ response'.status = 422
             /\ response'.body = [detail |-> "ValidationError"]
             /\ store' = store]_vars

\* C1 witness: a record with ph = 15 was rejected while the collection
\* holds documents.
C1_Witness ==
    /\ response.op = "create"
    /\ "ph" \in DOMAIN response.req /\ response.req["ph"] = Num(15)
    /\ response.status = 422
    /\ Len(store) >= 1

\* The value a supplied field is returned with: a timestamp as its ISO string.
Normalized(x) == IF x.t = "datetime" THEN Str(isoformat(x)) ELSE x

\* items holds exactly one record with the id of the creation e, and that
\* record's fields are the supplied fields of the model with their values.
IncludesOnce(items, e) ==
    /\ Cardinality({i \in DOMAIN items : items[i]["id"] = Str(e.id)}) = 1
    /\ \A i \in DOMAIN items :
          items[i]["id"] = Str(e.id) =>
              \A f \in DOMAIN e.input \cap ModelFields :
                  f \in DOMAIN items[i] /\ items[i][f] = Normalized(e.input[f])

\* Every successful create-sample added one document, under an id no other
\* creation was given.
OnePerCreate ==
    /\ Len(store) = Len(created)
    /\ \A i, j \in DOMAIN created : created[i].id = created[j].id => i = j
    /\ \A i \in DOMAIN created : store[i]["_id"].t = "oid" /\ str(store[i]["_id"]) = created[i].id
    /\ (response.op = "create" /\ response.status = 200)
          => /\ created # <<>>
             /\ response.body = [id |-> created[Len(created)].id, status |-> "created"]
             /\ response.req = created[Len(created)].input

\* C2 as stated: every valid record is persisted once under a new id, and
\* any Query without a scenario filter includes it exactly once with the
\* field values of the input.
C2_AnyQueryIncludes ==
    /\ OnePerCreate
    /\ (response.op = "list" /\ response.status = 200 /\ response.req.scenario = None)
          => \A i \in DOMAIN created : IncludesOnce(response.body.items, created[i])

\* C2 amended: every valid record is persisted once under a new id, and a
\* Query without a scenario filter and with no limit, or a limit of at least
\* the number of persisted records, includes it exactly once with the field
\* values of the input (the timestamp as its ISO string).
C2_UnlimitedQueryIncludes ==
    /\ OnePerCreate
    /\ (/\ response.op = "list" /\ response.status = 200
        /\ response.req.scenario = None
        /\ (response.req.limit = None \/ response.req.limit.v >= Len(store)))
          => \A i \in DOMAIN created : IncludesOnce(response.body.items, created[i])

\* C2 witness: three records were created and an unfiltered Query without a
\* limit returned three items.
C2_Witness ==
    /\ Len(created) = 3
    /\ response.op = "list" /\ response.status = 200
    /\ response.req = [scenario |-> None, limit |-> None]
    /\ response.body.count = 3

\* The documents of the collection whose scenario is s, in insertion order.
OfScenario(s) ==
    LET Hit(doc) == "scenario" \in DOMAIN doc /\ doc["scenario"] = s
    IN  SelectSeq(store, Hit)

\* C3: Query and the clustering stub retrieve the records of all scenarios
\* when no scenario is supplied, and only (and all of, up to the limit) the
\* records whose scenario equals s when a string s is supplied, the empty
\* string included.
C3_FilterWhenSupplied ==
    (response.op \in {"list", "cluster"} /\ response.status = 200)
        => LET s == response.req.scenario
               limit == IF response.op = "list" THEN response.req.limit ELSE None
               all == IF s = None THEN store ELSE OfScenario(s)
           IN  response.docs = IF limit = None THEN all ELSE Take(all, limit.v)

\* A stored value as the claim has it returned: a timestamp, at the top
\* level or one level down in a dict or a list, as its ISO string.
RenderedAnyNesting(x) ==
    CASE x.t = "datetime" -> Str(isoformat(x))
      [] x.t = "dict" -> Dict([k \in DOMAIN x.v |-> Normalized(x.v[k])])
      [] x.t = "list" -> List([i \in DOMAIN x.v |-> Normalized(x.v[i])])
      [] OTHER -> x

\* A stored value as returned: a timestamp, at the top level or a member of
\* a top-level dict, as its ISO string; anything else as it is.
RenderedInDict(x) ==
    CASE x.t = "datetime" -> Str(isoformat(x))
      [] x.t = "dict" -> Dict([k \in DOMAIN x.v |-> Normalized(x.v[k])])
      [] OTHER -> x

GroupOf(sc) == {i \in DOMAIN store : store[i]["scenario"] = sc}

\* Those of the positions S whose record has a number in field f.
WithNumber(S, f) == {i \in S : f \in DOMAIN store[i] /\ store[i][f].t = "num"}

RECURSIVE Total(_, _)
\* The sum of field f over the positions S.
Total(S, f) ==
    IF S = {} THEN 0
    ELSE LET i == CHOOSE x \in S : TRUE
         IN  store[i][f].v + Total(S \ {i}, f)

\* avg is the mean of field f over the positions S that have a number
\* there, and null when there is none.
IsMean(avg, S, f) ==
    IF WithNumber(S, f) = {}
    THEN avg = None
    ELSE /\ avg.t = "ratio"
         /\ avg.v[1] * Cardinality(WithNumber(S, f)) = Total(WithNumber(S, f), f) * avg.v[2]

\* C5: get-summaries returns one group per distinct scenario; its count is
\* the number of records of the scenario and each average is the mean of the
\* non-null values of its field in the group, null when there is none.
C5_SummaryPerScenario ==
    (response.op = "summaries" /\ response.status = 200)
        => /\ {row.scenario : row \in response.body}
                = {store[i]["scenario"] : i \in DOMAIN store}
           /\ Cardinality(response.body)
                = Cardinality({store[i]["scenario"] : i \in DOMAIN store})
           /\ \A row \in response.body :
                /\ row.count = Cardinality(GroupOf(row.scenario))
                /\ IsMean(row.avg_ph, GroupOf(row.scenario), "ph")
                /\ IsMean(row.avg_do, GroupOf(row.scenario), "dissolved_oxygen_mg_l")
                /\ IsMean(row.avg_turbidity, GroupOf(row.scenario), "turbidity_ntu")

\* C5 witness: the group "dry" of three records with ph 6, 8 and null and
\* no dissolved-oxygen value has count 3, avg_ph 7 and avg_do null.
C5_Witness ==
    /\ response.op = "summaries" /\ response.status = 200
    /\ \E row \in response.body :
          /\ row.scenario = Str("dry") /\ row.count = 3
          /\ row.avg_ph = [t |-> "ratio", v |-> <<7, 1>>]
          /\ row.avg_do = None
          /\ row.avg_turbidity = [t |-> "ratio", v |-> <<3, 1>>]
    /\ \E i \in DOMAIN store : "ph" \in DOMAIN store[i] /\ store[i]["ph"] = None

\* C6: the labels of the clustering stub have one entry per retrieved
\* record, under its public id, and the i-th retrieved record (from 0) has
\* label i mod k, k taken as 1 when k <= 0.
C6_RoundRobinLabels ==
    (response.op = "cluster" /\ response.status = 200)
        => LET docs == response.docs
               k == response.req.k
               lab == response.body.labels
           IN  /\ DOMAIN lab = {str(docs[i]["_id"]) : i \in DOMAIN docs}
               /\ Cardinality(DOMAIN lab) = Len(docs)
               /\ \A i \in DOMAIN docs :
                     lab[str(docs[i]["_id"])] = (i - 1) % (IF k <= 0 THEN 1 ELSE k)
               /\ k <= 0 => \A id \in DOMAIN lab : lab[id] = 0

\* C6 witness: three records retrieved with k = 2 are labelled 0, 1, 0.
C6_Witness ==
    /\ response.op = "cluster" /\ response.status = 200
    /\ response.req.k = 2
    /\ Len(response.docs) = 3
    /\ response.body.labels = [id \in {"oid1", "oid2", "oid3"} |-> IF id = "oid2" THEN 1 ELSE 0]

\* C7: no step removes or changes a persisted record, and a Query, Summary
\* Aggregation or Clustering step leaves the collection as it was.
C7_StoreOnlyGrows ==
    [][/\ Len(store') >= Len(store)
       /\ \A i \in DOMAIN store : store'[i] = store[i]
       /\ response'.op \in {"list", "summaries", "cluster"} => store' = store]_vars

\* C7 witness: the clustering stub answered over a collection of three
\* records, the first still under the first id.
C7_Witness ==
    /\ response.op = "cluster" /\ response.status = 200
    /\ Len(store) = 3
    /\ store[1]["_id"] = ObjectId(1)
    /\ Len(response.docs) >= 1

\* C8: a request during which the store failed is answered with the error
\* (status 500, a detail and nothing else: no items, no labels), and the
\* step leaves the collection as it was.
C8_StoreFailureSignalled ==
    [][~response'.storeOk
          => /\ response'.status = 500
             /\ response'.body = [detail |-> "StoreError"]
             /\ store' = store]_vars

\* C8 witness: a Query failed on a collection of two records or more.
C8_Witness ==
    /\ response.op = "list" /\ ~response.storeOk
    /\ response.status = 500
    /\ Len(store) >= 2

====
